---------------------------- MODULE Spec2Model ----------------------------
(***************************************************************************)
(* Model of calc::BigInt<IntT> (src/src/bigint.hpp): the bitwise           *)
(* operators and shifts of src/src/bigint_bit_arith.cpp and the division   *)
(* engines of src/src/bigint_divmod.cpp.                                   *)
(*                                                                         *)
(* An integer is the triple (cap_, len_, val_[0..cap_)) of bigint.hpp      *)
(* 129-131; val is a function on 0..cap-1 so that the indices of the       *)
(* source are the indices of the model.                                    *)
(*                                                                         *)
(* Widths.  TLC integers are 32 bits wide, so the template is instantiated *)
(* at scaled widths: uint64_t accumulators are ACC-bit unsigned values     *)
(* (every accumulator expression is reduced modulo 2^ACC) and IntT is a    *)
(* LIMB-bit unsigned value (reduced modulo 2^LIMB).  LIMB ranges over      *)
(* LimbWidths: LIMB = ACC/4 stands for BigInt<uint16_t> (four limbs per    *)
(* accumulator, Algorithm B) and LIMB = ACC/2 for BigInt<uint32_t> (two    *)
(* limbs per accumulator, Algorithm A).  The literals 64 and 21 of the     *)
(* source become ACC and AlgBMaxLimb.                                      *)
(*                                                                         *)
(* The members that the sources under src/ only declare (Sign, SetLen,     *)
(* ShrinkLen, ToOpposite, the additive operators, the comparison, the      *)
(* capacity management) are modelled from sections 3, 4.A-4.D of the       *)
(* specification.                                                          *)
(***************************************************************************)
EXTENDS Integers, Sequences, FiniteSets, TLC

VARIABLES
    LIMB,     \* template parameter: bit width of IntT (LIMB of bigint.hpp:127)
    pc,       \* "start" | "done" | "hang" (never returns) | "fault" (trap)
              \* | "mid" (operator%=(IntT) between its lines 27 and 28)
    op,       \* the operation that acted
    a,        \* the left operand as constructed (the caller's copy)
    x,        \* the receiver *this: a copy of a, mutated by the operation
    b,        \* the right operand rhs (const BigInt&)
    k,        \* the size_t operand of the shifts
    mod,      \* the BigInt remainder output (BigInt* mod)
    modLimb   \* the IntT remainder output (IntT* mod); -1 = never written

vars == <<LIMB, pc, op, a, x, b, k, mod, modLimb>>

-----------------------------------------------------------------------------
(* Widths and bounds *)

\* width of the uint64_t accumulators (scaled)
ACC == 12
\* limb widths of the instantiated templates: ACC/4 (uint16_t), ACC/2 (uint32_t)
LimbWidths == {ACC \div 4, ACC \div 2}
\* largest LIMB for which 3*LIMB <= ACC-1 ("LIMB > 21" for ACC = 64)
AlgBMaxLimb == (ACC - 1) \div 3

\* 2^LIMB, the number of limb values
Base == 2 ^ LIMB
\* 2^ACC
AccMod == 2 ^ ACC
\* 64 / LIMB
PlainLen == ACC \div LIMB

\* dividends: |a| <= SmallA (plain path), LongA <= |a| <= MaxA (long path,
\* the top limb is sign padding at LIMB = ACC/4) or HugeA <= |a| <= HugeMaxA
\* (long path, every limb carries magnitude)
SmallA == 40
LongA == 2240
MaxA == 2241
HugeA == 57344
HugeMaxA == 57345
\* divisors: |b| <= MaxB, |b| = PadB (three limbs at LIMB = ACC/4, the top
\* one sign padding) or |b| = WideB (five limbs at LIMB = ACC/4, three at
\* LIMB = ACC/2, none of them padding)
MaxB == 9
PadB == 47
WideB == 9728
\* operands of the bitwise operators: |a|, |b| <= MaxBitVal
MaxBitVal == 20
\* operands of the shifts: |a| <= MaxShiftVal, 0 <= k <= MaxShift
MaxShiftVal == 20
MaxShift == 9

-----------------------------------------------------------------------------
(* Machine arithmetic on limbs and accumulators *)

Max(m, n) == IF m >= n THEN m ELSE n

\* F applied to the value of v: v is evaluated once, however often F uses it
Bind(v, F(_)) == CHOOSE r \in {F(w) : w \in {v}} : TRUE

RECURSIVE BitAnd(_, _)
BitAnd(m, n) ==
    IF m = 0 \/ n = 0 THEN 0
    ELSE (m % 2) * (n % 2) + 2 * BitAnd(m \div 2, n \div 2)

RECURSIVE BitOr(_, _)
BitOr(m, n) ==
    IF m = 0 THEN n
    ELSE IF n = 0 THEN m
    ELSE Max(m % 2, n % 2) + 2 * BitOr(m \div 2, n \div 2)

RECURSIVE BitXor(_, _)
BitXor(m, n) ==
    IF m = 0 THEN n
    ELSE IF n = 0 THEN m
    ELSE ((m + n) % 2) + 2 * BitXor(m \div 2, n \div 2)

\* IntT(v): conversion to the limb type
IntT(v) == v % Base
\* conversion to uint64_t
U64(v) == v % AccMod
\* ~v on a limb
LimbInv(v) == Base - 1 - v

RECURSIVE NextPow2From(_, _)
NextPow2From(c, n) == IF c >= n THEN c ELSE NextPow2From(2 * c, n)

-----------------------------------------------------------------------------
(* Representation *)

\* bool Sign() const: the top bit of val_[len_ - 1]
Sign(n) == n.val[n.len - 1] >= Base \div 2

RECURSIVE UVal(_, _)
\* the unsigned value of the limbs [0, i)
UVal(n, i) == IF i = 0 THEN 0 ELSE n.val[i - 1] * Base ^ (i - 1) + UVal(n, i - 1)

\* the signed number a buffer denotes (two's complement over len limbs)
Val(n) == IF Sign(n) THEN UVal(n, n.len) - Base ^ n.len ELSE UVal(n, n.len)

RECURSIVE CanonLen(_, _)
\* the least length >= l whose two's complement range holds v
CanonLen(v, l) ==
    IF -(Base ^ l) <= 2 * v /\ 2 * v < Base ^ l THEN l ELSE CanonLen(v, l + 1)

\* the buffer of capacity at least c0 that holds v at its canonical length
Encode(v0, c0) ==
    Bind(v0, LAMBDA v :
    Bind(CanonLen(v, 1), LAMBDA l :
    Bind(NextPow2From(c0, l), LAMBDA c :
    [cap |-> c, len |-> l,
     val |-> [i \in 0 .. c - 1 |->
                IF i < l THEN (v % Base ^ l) \div Base ^ i % Base ELSE 0]])))

\* explicit BigInt(int value = 0)
BigInt(v) == Encode(v, 1)

\* void AutoExpandSize(size_t target_len): double cap up to target_len
AutoExpandSize(n0, target) ==
    Bind(n0, LAMBDA n :
    IF target <= n.cap THEN n
    ELSE Bind(NextPow2From(n.cap, target), LAMBDA c :
         [n EXCEPT !.cap = c,
                   !.val = [i \in 0 .. c - 1 |->
                              IF i < n.cap THEN n.val[i] ELSE 0]]))

\* void AutoShrinkSize(): halve cap when len <= cap / 4
AutoShrinkSize(n0) ==
    Bind(n0, LAMBDA n :
    IF n.cap > 1 /\ 4 * n.len <= n.cap
    THEN [n EXCEPT !.cap = n.cap \div 2,
                   !.val = [i \in 0 .. n.cap \div 2 - 1 |-> n.val[i]]]
    ELSE n)

\* void SetLen(size_t new_len, bool preserve_sign)
SetLen(n0, new_len, preserve_sign) ==
    Bind(n0, LAMBDA n :
    Bind(AutoExpandSize(n, new_len), LAMBDA e :
    Bind(IF preserve_sign /\ Sign(n) THEN Base - 1 ELSE 0, LAMBDA fillv :
    [e EXCEPT !.len = new_len,
              !.val = [i \in 0 .. e.cap - 1 |->
                         IF i >= new_len THEN 0
                         ELSE IF i >= n.len THEN fillv
                         ELSE e.val[i]]])))

RECURSIVE ShrinkLen(_)
\* void ShrinkLen(): drop the top limb while it only repeats the sign
ShrinkLen(n0) ==
    Bind(n0, LAMBDA n :
    IF n.len >= 2 /\
       \/ n.val[n.len - 1] = 0 /\ n.val[n.len - 2] < Base \div 2
       \/ n.val[n.len - 1] = Base - 1 /\ n.val[n.len - 2] >= Base \div 2
    THEN ShrinkLen([n EXCEPT !.len = n.len - 1, !.val[n.len - 1] = 0])
    ELSE n)

\* canonical form: ShrinkLen has nothing to strip
Canonical(n) == n.len >= 1 /\ ShrinkLen(n) = n

\* BigInt& ToOpposite(): two's complement negation, length bumped if needed
ToOpposite(n0) == Bind(n0, LAMBDA n : Encode(-Val(n), n.cap))

\* int Compare(const BigInt&) / operator<=>: signed three-way comparison
Compare(m0, n0) ==
    Bind(Val(m0), LAMBDA vm :
    Bind(Val(n0), LAMBDA vn :
    IF vm < vn THEN -1 ELSE IF vm > vn THEN 1 ELSE 0))

\* operator+=, operator-= (BigInt), operator*= (IntT)
AddEq(m0, n0) == Bind(m0, LAMBDA m : Encode(Val(m) + Val(n0), m.cap))
SubEq(m0, n0) == Bind(m0, LAMBDA m : Encode(Val(m) - Val(n0), m.cap))
MulEqLimb(m0, r) == Bind(m0, LAMBDA m : Encode(Val(m) * r, m.cap))

\* std::fill(val_ + from, val_ + to, IntT(0))
FillZero(n0, from, to) ==
    Bind(n0, LAMBDA n :
    [n EXCEPT !.val = [i \in 0 .. n.cap - 1 |->
                         IF from <= i /\ i < to THEN 0 ELSE n.val[i]]])

\* the limbs of f at the indices below len, the rest of the buffer as it is
MapLimbs(n, len, f(_)) ==
    [n EXCEPT !.val = [i \in 0 .. n.cap - 1 |->
                         IF i < len THEN f(i) ELSE n.val[i]]]

-----------------------------------------------------------------------------
(* Bit arithmetic: src/src/bigint_bit_arith.cpp *)

\* ToBitInv with its loop started at limb 1
ToBitInvSkipLow(t0) ==
    Bind(t0, LAMBDA t :
    MapLimbs(t, t.len, LAMBDA i : IF i = 0 THEN t.val[i] ELSE LimbInv(t.val[i])))

\* BigInt& ToBitInv()
ToBitInv(t0) ==
    Bind(t0, LAMBDA t : MapLimbs(t, t.len, LAMBDA i : LimbInv(t.val[i])))

\* lines 17-19, 33-35, 51-53: the receiver is not the longer operand
Aligned(t, rhs) == IF t.len < rhs.len THEN SetLen(t, rhs.len, FALSE) ELSE t

\* operator&=
AndEq(t0, rhs0) ==
    Bind(t0, LAMBDA t : Bind(rhs0, LAMBDA rhs :
    IF t.len <= rhs.len
    THEN Bind(Aligned(t, rhs), LAMBDA s :
         ShrinkLen(MapLimbs(s, s.len, LAMBDA i : BitAnd(s.val[i], rhs.val[i]))))
    ELSE Bind(MapLimbs(t, rhs.len, LAMBDA i : BitAnd(t.val[i], rhs.val[i])),
         LAMBDA s :
         IF ~Sign(rhs)
         THEN ShrinkLen([FillZero(s, rhs.len, s.len) EXCEPT !.len = rhs.len])
         ELSE ShrinkLen(s))))

\* operator|=
OrEq(t0, rhs0) ==
    Bind(t0, LAMBDA t : Bind(rhs0, LAMBDA rhs :
    IF t.len <= rhs.len
    THEN Bind(Aligned(t, rhs), LAMBDA s :
         ShrinkLen(MapLimbs(s, s.len, LAMBDA i : BitOr(s.val[i], rhs.val[i]))))
    ELSE Bind(MapLimbs(t, rhs.len, LAMBDA i : BitOr(t.val[i], rhs.val[i])),
         LAMBDA s :
         IF Sign(rhs)
         THEN Bind([s EXCEPT !.val[rhs.len] = Base - 1], LAMBDA s1 :
              Bind(IF rhs.len + 1 < s1.len
                   THEN FillZero(s1, rhs.len + 1, s1.len) ELSE s1, LAMBDA s2 :
              ShrinkLen([s2 EXCEPT !.len = rhs.len + 1])))
         ELSE ShrinkLen(s))))

\* operator^=
XorEq(t0, rhs0) ==
    Bind(t0, LAMBDA t : Bind(rhs0, LAMBDA rhs :
    IF t.len <= rhs.len
    THEN Bind(Aligned(t, rhs), LAMBDA s :
         ShrinkLen(MapLimbs(s, s.len, LAMBDA i : BitXor(s.val[i], rhs.val[i]))))
    ELSE Bind(MapLimbs(t, rhs.len, LAMBDA i : BitXor(t.val[i], rhs.val[i])),
         LAMBDA s :
         IF Sign(rhs)
         THEN ShrinkLen(MapLimbs(s, s.len, LAMBDA i :
                  IF i >= rhs.len THEN LimbInv(s.val[i]) ELSE s.val[i]))
         ELSE ShrinkLen(s))))

\* lines 74-83: the limbs after the move.  The loops run downwards and read
\* only indices at or below the one they write, so every read sees the limb
\* as it was on entry.
ShlLimbs(e, q, r, new_len) ==
    [i \in 0 .. e.cap - 1 |->
        IF i > q /\ i <= new_len - 1
        THEN IF r # 0
             THEN IntT(e.val[i - q] * 2 ^ r + e.val[i - q - 1] \div 2 ^ (LIMB - r))
             ELSE e.val[i - q]
        ELSE IF i = q /\ r # 0 THEN IntT(e.val[0] * 2 ^ r)
        ELSE IF i < q THEN 0
        ELSE e.val[i]]

\* lines 84-85 and 108-109: len_ = new_len, less one if the top limb is zero
DropZeroTop(limbs, new_len) ==
    IF new_len > 1 /\ limbs[new_len - 1] = 0 THEN new_len - 1 ELSE new_len

\* operator<<=.  size_t wrap of new_len (line 67) needs a count near 2^64.
ShlEq(t0, rhs) ==
    Bind(t0, LAMBDA t :
    Bind(rhs \div LIMB, LAMBDA q :
    Bind(rhs % LIMB, LAMBDA r :
    Bind(t.len + q + (IF r > 0 THEN 1 ELSE 0), LAMBDA new_len :
    Bind(IF new_len > t.cap THEN AutoExpandSize(t, new_len) ELSE t, LAMBDA e :
    IF q >= new_len
    THEN AutoShrinkSize([FillZero(e, 0, e.len) EXCEPT !.len = 1])
    ELSE Bind(ShlLimbs(e, q, r, new_len), LAMBDA moved :
         [e EXCEPT !.val = moved, !.len = DropZeroTop(moved, new_len)]))))))

\* lines 98-107: the limbs after the move.  The loops run upwards and read
\* only indices at or above the one they write.
ShrLimbs(t, q, r, new_len) ==
    [i \in 0 .. t.cap - 1 |->
        IF i < new_len - 1
        THEN IF r # 0
             THEN IntT(t.val[i + q] \div 2 ^ r + t.val[i + q + 1] * 2 ^ (LIMB - r))
             ELSE t.val[i + q]
        ELSE IF i = new_len - 1
        THEN IF r # 0 THEN IntT(t.val[t.len - 1] \div 2 ^ r) ELSE t.val[i + q]
        ELSE IF q # 0 /\ i < t.len THEN 0
        ELSE t.val[i]]

\* operator>>=
ShrEq(t0, rhs) ==
    Bind(t0, LAMBDA t :
    Bind(rhs \div LIMB, LAMBDA q :
    Bind(rhs % LIMB, LAMBDA r :
    Bind(t.len - q, LAMBDA new_len :
    IF new_len <= 0
    THEN AutoShrinkSize([FillZero(t, 0, t.len) EXCEPT !.len = 1])
    ELSE Bind(ShrLimbs(t, q, r, new_len), LAMBDA moved :
         AutoShrinkSize([t EXCEPT !.val = moved,
                                  !.len = DropZeroTop(moved, new_len)]))))))

-----------------------------------------------------------------------------
(* Division: src/src/bigint_divmod.cpp                                     *)
(*                                                                         *)
(* Every engine returns [st, this, mod]: the receiver and the remainder    *)
(* slot when it returns (st = "ok"), or as they stand when it never        *)
(* returns ("hang") or traps on a native division by zero ("fault").       *)
(* g = <<g1, g2>> are the limbs found in front of the divisor's and of the *)
(* receiver's buffer when the code reads val_[-1].                         *)

\* BigInt& operator=(const BigInt&): only the value is copied
CopyAssign(dst, src0) ==
    Bind(src0, LAMBDA src :
    Bind(NextPow2From(dst.cap, src.len), LAMBDA c :
    [cap |-> c, len |-> src.len,
     val |-> [i \in 0 .. c - 1 |-> IF i < src.len THEN src.val[i] ELSE 0]]))

\* val_[j], j possibly -1
Rd(n, j, g) == IF j < 0 THEN g ELSE n.val[j]

RECURSIVE TrailingZeros(_)
\* lines 66-70: log_rhs, the number of times tmp_rhs is halved until odd
TrailingZeros(r) == IF r % 2 = 1 THEN 0 ELSE 1 + TrailingZeros(r \div 2)

RECURSIVE BasicSweep(_, _, _, _)
\* lines 78-81: the sweep from the top limb down to limb 0
BasicSweep(p, rhs, i, t) ==
    IF i < 0 THEN [q |-> p, t |-> t]
    ELSE Bind(U64(BitOr(U64((t % rhs) * Base), p.val[i])), LAMBDA t1 :
         Bind([p EXCEPT !.val[i] = IntT(t1 \div rhs)], LAMBDA p1 :
         BasicSweep(p1, rhs, i - 1, t1)))

\* lines 72-82: the quotient of the magnitude p and the last value of t
BasicQuot(p, rhs) ==
    Bind(TrailingZeros(rhs), LAMBDA log_rhs :
    IF p.len = 1
    THEN [q |-> [p EXCEPT !.val[0] = p.val[0] \div rhs], t |-> p.val[0] % rhs]
    ELSE IF rhs \div 2 ^ log_rhs = 1
    THEN [q |-> ShrEq(p, log_rhs), t |-> 0]
    ELSE BasicSweep(p, rhs, p.len - 1, 0))

\* lines 86-91: what is written to *mod
BasicMod(sign, t, rhs) ==
    IF sign /\ t # 0 THEN IntT(rhs - (t % rhs)) ELSE IntT(t % rhs)

\* BigInt& BasicDivEq(IntT rhs, IntT* mod); mod = -1: *mod not written
BasicDivEq(t0, rhs, hasMod) ==
    Bind(t0, LAMBDA t :
    IF rhs = 0 \/ rhs = 1 THEN [st |-> "ok", this |-> t, mod |-> -1]
    ELSE
    Bind(Sign(t), LAMBDA sign :
    Bind(IF sign THEN ToOpposite(t) ELSE t, LAMBDA p :
    Bind(BasicQuot(p, rhs), LAMBDA res :
    [st |-> "ok",
     this |-> ShrinkLen(IF sign THEN ToOpposite(res.q) ELSE res.q),
     mod |-> IF hasMod THEN BasicMod(sign, res.t, rhs) ELSE -1]))))

RECURSIVE Pack(_, _, _)
\* lines 102-103: x = (x << LIMB) | val_[i] for i = len_ - 1 down to 0
Pack(n, i, acc) ==
    IF i < 0 THEN acc
    ELSE Bind(U64(BitOr(U64(acc * Base), n.val[i])), LAMBDA acc1 :
         Pack(n, i - 1, acc1))

\* line 104: the divisor as the accumulator holds it
PackDivisor(rhs) ==
    Bind(Pack(rhs, rhs.len - 1, 0), LAMBDA y :
    IF Sign(rhs) THEN U64(0 - y) ELSE y)

RECURSIVE NumLimbs(_)
\* the number of rounds of while (z) { ...; z >>= LIMB; }
NumLimbs(z) == IF z = 0 THEN 0 ELSE 1 + NumLimbs(z \div Base)

\* lines 107-113 and 118-124: the limbs of z written from index 0, the rest
\* of [0, len) zeroed, len set to the number of limbs written (at least 1)
Unpack(n0, z) ==
    Bind(n0, LAMBDA n :
    Bind(NumLimbs(z), LAMBDA i :
    [n EXCEPT !.val = [j \in 0 .. n.cap - 1 |->
                         IF j < i THEN IntT(z \div Base ^ j)
                         ELSE IF j < n.len THEN 0
                         ELSE n.val[j]],
              !.len = IF i # 0 THEN i ELSE 1]))

\* lines 107-115: the quotient z in the receiver, with its sign
PlainQuot(p, z, sign, rsign) ==
    Bind(Unpack(p, z), LAMBDA q1 :
    Bind(IF Sign(q1) THEN SetLen(q1, q1.len + 1, FALSE) ELSE q1, LAMBDA q2 :
    IF sign # rsign THEN ToOpposite(q2) ELSE q2))

\* lines 117-125: the remainder w in *mod, with the sign of the dividend
PlainMod(m, w, sign) ==
    Bind(Unpack(SetLen(m, PlainLen, FALSE), w), LAMBDA m1 :
    IF sign THEN ToOpposite(m1) ELSE m1)

\* lines 97-127: PlainDivEq past its test for a zero divisor
PlainDivide(t, rhs, hasMod, m) ==
    Bind(Sign(t), LAMBDA sign :
    Bind(IF sign THEN ToOpposite(t) ELSE t, LAMBDA p :
    Bind(Pack(p, p.len - 1, 0), LAMBDA xx :
    Bind(PackDivisor(rhs), LAMBDA y :
    IF y = 0 THEN [st |-> "fault", this |-> p, mod |-> m]
    ELSE
    Bind(xx \div y, LAMBDA z :
    Bind(U64(xx - z * y), LAMBDA w :
    [st |-> "ok", this |-> PlainQuot(p, z, sign, Sign(rhs)),
     mod |-> IF hasMod THEN PlainMod(m, w, sign) ELSE m]))))))

\* PlainDivEq without line 96
PlainDivEqUnguarded(t0, rhs0, hasMod, m) ==
    Bind(t0, LAMBDA t : Bind(rhs0, LAMBDA rhs : PlainDivide(t, rhs, hasMod, m)))

\* BigInt& PlainDivEq(const BigInt& rhs, BigInt* mod)
PlainDivEq(t0, rhs0, hasMod, m) ==
    Bind(t0, LAMBDA t : Bind(rhs0, LAMBDA rhs :
    IF Compare(rhs, BigInt(0)) = 0 THEN [st |-> "ok", this |-> t, mod |-> m]
    ELSE PlainDivide(t, rhs, hasMod, m)))

RECURSIVE NormShift(_)
\* lines 139-143 / 204-208: mov, the number of doublings that bring test_tmp
\* to 2^(LIMB-1) or above; -1 when the loop never ends (test_tmp = 0 stays
\* 0 under <<=; g++ -O0 and -O2 builds both spin there)
NormShift(test_tmp) ==
    IF test_tmp = 0 THEN -1
    ELSE IF test_tmp >= Base \div 2 THEN 0
    ELSE 1 + NormShift(IntT(2 * test_tmp))

\* lines 146-147, 211-212, 289-290, 329-330: the receiver becomes zero
ZeroOut(p) == [FillZero(p, 0, p.len) EXCEPT !.len = 1]

\* lines 152-157 and their three copies: the single-limb divisor
LimbDivisor(p, d, hasMod, m) ==
    Bind(BasicDivEq(p, d.val[0], hasMod), LAMBDA r :
    [st |-> "ok", this |-> r.this,
     mod |-> IF hasMod
             THEN SetLen(IF r.mod >= 0 THEN [m EXCEPT !.val[0] = r.mod] ELSE m,
                         1, FALSE)
             ELSE m])

\* lines 180-186 / 244-250: the trial quotient of Algorithm A
TrialA(u1, u2, v1, v2) ==
    Bind(u1 \div v1, LAMBDA q0 :
    Bind(IF q0 >= Base THEN Base - 1 ELSE q0, LAMBDA q :
    Bind(U64(u1 - q * v1), LAMBDA r :
    IF U64(q * v2) > U64(Base * r + u2) THEN U64(q - 1) ELSE q)))

\* lines 308-309 / 348-349: the trial quotient of Algorithm B
TrialB(u, v) ==
    Bind(u \div v, LAMBDA q : IF q >= Base THEN Base - 1 ELSE q)

\* lines 187-192 / 251-256 / 310-315 / 350-355: subtract q * d shifted by i
\* limbs, add d back once if the receiver went negative, store the limb
SubtractStep(cur, d, result, q, i) ==
    Bind(SubEq(cur, ShlEq(MulEqLimb(d, IntT(q)), i * LIMB)), LAMBDA c1 :
    Bind(IF Sign(c1) THEN U64(q - 1) ELSE q, LAMBDA q1 :
    [this |-> IF Sign(c1) THEN AddEq(c1, ShlEq(d, i * LIMB)) ELSE c1,
     result |-> [result EXCEPT !.val[i] = IntT(q1)]]))

\* lines 172-179 / 237-243: u1 and u2 of the round at position i
WindowA(cur, n, u1in, i, mov, g2) ==
    IF mov # 0
    THEN [u1 |-> U64(BitOr(U64(u1in * 2 ^ mov),
                           Rd(cur, i + n - 2, g2) \div 2 ^ (LIMB - mov))),
          u2 |-> BitOr(IntT(Rd(cur, i + n - 2, g2) * 2 ^ mov),
                       Rd(cur, i + n - 3, g2) \div 2 ^ (LIMB - mov))]
    ELSE [u1 |-> u1in, u2 |-> Rd(cur, i + n - 2, g2)]

\* one round of a long-division loop, for the record: position i, the
\* receiver before and after, the operands of the trial division, and the
\* trial quotient q at the moment the subtraction starts
Round(i, cur, win, q, s) ==
    [i |-> i, before |-> cur, win |-> win, q |-> q, after |-> s.this]

RECURSIVE LoopA(_, _, _, _, _, _, _, _, _)
\* lines 171-196 / 236-260: one round per quotient limb, i = len_ - n .. 0;
\* rounds lists them in the order they ran
LoopA(cur, d, result, u1in, i, mov, v1, v2, g2) ==
    IF i < 0 THEN [this |-> cur, result |-> result, rounds |-> <<>>]
    ELSE
    Bind(WindowA(cur, d.len, u1in, i, mov, g2), LAMBDA win :
    Bind(TrialA(win.u1, win.u2, v1, v2), LAMBDA q :
    Bind(SubtractStep(cur, d, result, q, i), LAMBDA s :
    Bind(U64(BitOr(U64(Rd(s.this, i + d.len - 1, g2) * Base),
                   Rd(s.this, i + d.len - 2, g2))), LAMBDA u1out :
    Bind(LoopA(s.this, d, s.result, u1out, i - 1, mov, v1, v2, g2),
         LAMBDA l :
    [l EXCEPT !.rounds = <<Round(i, cur, [u1 |-> win.u1, u2 |-> win.u2,
                                          v1 |-> v1, v2 |-> v2], q, s)>>
                         \o l.rounds])))))

\* lines 316-318 / 356-358: u for the next round
WindowB(cur, n, i, g2) ==
    U64(BitOr(BitOr(U64(Rd(cur, i + n - 1, g2) * Base ^ 2),
                    U64(Rd(cur, i + n - 2, g2) * Base)),
              Rd(cur, i + n - 3, g2)))

RECURSIVE LoopB(_, _, _, _, _, _, _)
\* lines 307-319 / 347-359
LoopB(cur, d, result, u, i, v, g2) ==
    IF i < 0 THEN [this |-> cur, result |-> result, rounds |-> <<>>]
    ELSE
    Bind(TrialB(u, v), LAMBDA q :
    Bind(SubtractStep(cur, d, result, q, i), LAMBDA s :
    Bind(WindowB(s.this, d.len, i, g2), LAMBDA uout :
    Bind(LoopB(s.this, d, s.result, uout, i - 1, v, g2), LAMBDA l :
    [l EXCEPT !.rounds = <<Round(i, cur, [u |-> u, v |-> v], q, s)>>
                         \o l.rounds]))))

\* lines 161-169 / 226-234: v1 and v2
DivisorA(d, mov, g1) ==
    Bind(d.len, LAMBDA n :
    IF mov # 0
    THEN [v1 |-> BitOr(IntT(d.val[n - 1] * 2 ^ mov),
                       d.val[n - 2] \div 2 ^ (LIMB - mov)),
          v2 |-> BitOr(IntT(d.val[n - 2] * 2 ^ mov),
                       Rd(d, n - 3, g1) \div 2 ^ (LIMB - mov))]
    ELSE [v1 |-> d.val[n - 1], v2 |-> d.val[n - 2]])

\* lines 197-201 / 261-265 / 320-324 / 360-364: the loop's receiver is the
\* remainder; result is the quotient, moved in negated or copied in
LongResult(l, differ, hasMod, m) ==
    [st |-> "ok",
     this |-> IF differ THEN ToOpposite(l.result)
              ELSE CopyAssign(l.this, l.result),
     mod |-> IF hasMod THEN CopyAssign(m, l.this) ELSE m]

\* lines 159-196 / 224-260: Algorithm A on more than one divisor limb, up to
\* the end of its loop
LongLoopA(p, d, mov, g) ==
    Bind(SetLen(BigInt(0), p.len - d.len + 2, FALSE), LAMBDA result :
    Bind(DivisorA(d, mov, g[1]), LAMBDA v :
    LoopA(p, d, result, p.val[p.len - 1], p.len - d.len, mov,
          v.v1, v.v2, g[2])))

\* lines 159-201 / 224-265: Algorithm A on more than one divisor limb
LongDivA(p, d, mov, differ, hasMod, m, g) ==
    Bind(LongLoopA(p, d, mov, g), LAMBDA l : LongResult(l, differ, hasMod, m))

\* lines 304-306 / 344-346: v, the two top limbs of the divisor
DivisorB(d) == U64(BitOr(U64(d.val[d.len - 1] * Base), d.val[d.len - 2]))

\* lines 302-319 / 342-359: Algorithm B on more than one divisor limb, up to
\* the end of its loop
LongLoopB(p, d, g) ==
    Bind(SetLen(BigInt(0), p.len - d.len + 2, FALSE), LAMBDA result :
    Bind(DivisorB(d), LAMBDA v :
    Bind(U64(BitOr(U64(p.val[p.len - 1] * Base), p.val[p.len - 2])), LAMBDA u :
    LoopB(p, d, result, u, p.len - d.len, v, g[2]))))

\* lines 302-324 / 342-364: Algorithm B on more than one divisor limb
LongDivB(p, d, differ, hasMod, m, g) ==
    Bind(LongLoopB(p, d, g), LAMBDA l : LongResult(l, differ, hasMod, m))

\* lines 268-270 / 367-369: the sign of the remainder, then canonical form
Finish(r0, sign, hasMod) ==
    Bind(r0, LAMBDA r :
    IF r.st # "ok" THEN r
    ELSE [st |-> "ok", this |-> ShrinkLen(r.this),
          mod |-> IF hasMod
                  THEN ShrinkLen(IF sign THEN ToOpposite(r.mod) ELSE r.mod)
                  ELSE r.mod])

\* the branches shared by the two algorithms, on the magnitudes p and d
ShortCases(p, d, hasMod, m, long) ==
    IF Compare(p, d) < 0
    THEN [st |-> "ok", this |-> ZeroOut(p),
          mod |-> IF hasMod THEN CopyAssign(m, p) ELSE m]
    ELSE IF d.len <= PlainLen /\ p.len <= PlainLen
    THEN PlainDivEq(p, d, hasMod, m)
    ELSE IF d.len = 1
    THEN LimbDivisor(p, d, hasMod, m)
    ELSE long

\* BigInt& DivEqAlgA(const BigInt& rhs, BigInt* mod).  The two branches on
\* rhs.Sign() differ only in the divisor d: -rhs (tmp_obj) or rhs.
DivEqAlgA(t0, rhs0, hasMod, m, g) ==
    Bind(t0, LAMBDA t : Bind(rhs0, LAMBDA rhs :
    IF Compare(rhs, BigInt(0)) = 0 THEN [st |-> "ok", this |-> t, mod |-> m]
    ELSE
    Bind(Sign(t), LAMBDA sign :
    Bind(IF sign THEN ToOpposite(t) ELSE t, LAMBDA p :
    Bind(IF Sign(rhs) THEN ToOpposite(rhs) ELSE rhs, LAMBDA d :
    Bind(NormShift(d.val[d.len - 1]), LAMBDA mov :
    IF mov < 0 THEN [st |-> "hang", this |-> p, mod |-> m]
    ELSE Finish(ShortCases(p, d, hasMod, m,
                    LongDivA(p, d, mov, sign # Sign(rhs), hasMod, m, g)),
                sign, hasMod)))))))

\* BigInt& DivEqAlgB(const BigInt& rhs, BigInt* mod), with its
\* specialization and the "if constexpr (LIMB > 21)" of line 280
DivEqAlgB(t0, rhs0, hasMod, m, g) ==
    Bind(t0, LAMBDA t : Bind(rhs0, LAMBDA rhs :
    IF Compare(rhs, BigInt(0)) = 0 THEN [st |-> "ok", this |-> t, mod |-> m]
    ELSE IF LIMB > AlgBMaxLimb THEN DivEqAlgA(t, rhs, hasMod, m, g)
    ELSE
    Bind(Sign(t), LAMBDA sign :
    Bind(IF sign THEN ToOpposite(t) ELSE t, LAMBDA p :
    Bind(IF Sign(rhs) THEN ToOpposite(rhs) ELSE rhs, LAMBDA d :
    Finish(ShortCases(p, d, hasMod, m,
               LongDivB(p, d, sign # Sign(rhs), hasMod, m, g)),
           sign, hasMod))))))

\* BigInt& operator/=(const BigInt& rhs)
DivEq(t, rhs, g) ==
    IF t.len <= PlainLen /\ rhs.len <= PlainLen
    THEN PlainDivEq(t, rhs, FALSE, BigInt(0))
    ELSE IF rhs.len = 1
    THEN [BasicDivEq(t, rhs.val[0], FALSE) EXCEPT !.mod = BigInt(0)]
    ELSE IF LIMB > AlgBMaxLimb
    THEN DivEqAlgA(t, rhs, FALSE, BigInt(0), g)
    ELSE DivEqAlgB(t, rhs, FALSE, BigInt(0), g)

\* BigInt& operator%=(const BigInt& rhs): *this = std::move(mod)
ModEq(t, rhs, g) ==
    Bind(IF t.len <= PlainLen /\ rhs.len <= PlainLen
         THEN PlainDivEq(t, rhs, TRUE, BigInt(0))
         ELSE IF LIMB > AlgBMaxLimb
         THEN DivEqAlgA(t, rhs, TRUE, BigInt(0), g)
         ELSE DivEqAlgB(t, rhs, TRUE, BigInt(0), g), LAMBDA r :
    IF r.st = "ok" THEN [r EXCEPT !.this = r.mod] ELSE r)

RECURSIVE LimbModSweep(_, _, _, _, _, _)
\* bigint_divmod.cpp 20-23: tot, the residue of the magnitude p modulo rhs
LimbModSweep(p, rhs, limb_mod, i, tot, cur_mod) ==
    IF i >= p.len THEN tot
    ELSE LimbModSweep(p, rhs, limb_mod, i + 1,
                      U64(tot + U64(cur_mod * p.val[i])) % rhs,
                      U64(cur_mod * limb_mod) % rhs)

\* bigint_divmod.cpp 12-24: limb_mod and tot
LimbModTot(p, rhs) ==
    Bind(Base % rhs, LAMBDA limb_mod :
    IF limb_mod = 0 THEN p.val[0] % rhs
    ELSE LimbModSweep(p, rhs, limb_mod, 0, 0, 1))

\* BigInt& operator%=(IntT rhs), lines 12-27 (rhs # 0): the receiver when
\* len_ = 2 and val_[0] = tot have been stored.  val_[1] is not written when
\* len_ was 1; with cap_ = 1 it is the cell behind the buffer, which holds g.
\* val lists the cells val_[0 .. max(cap_, len_)).
ModEqLimbStore(t0, rhs, g) ==
    Bind(t0, LAMBDA t :
    Bind(IF Sign(t) THEN ToOpposite(t) ELSE t, LAMBDA p :
    Bind(LimbModTot(p, rhs), LAMBDA tot :
    [cap |-> p.cap, len |-> 2,
     val |-> [i \in 0 .. Max(p.cap, 2) - 1 |->
                IF i = 0 THEN IntT(tot)
                ELSE IF i < p.len THEN 0
                ELSE IF i >= p.cap THEN g
                ELSE p.val[i]]])))

\* BigInt& operator%=(IntT rhs), lines 28-29
ModEqLimbFinish(n, sign) == ShrinkLen(IF sign THEN ToOpposite(n) ELSE n)

\* BigInt& operator/=(IntT rhs)
DivEqLimb(t, rhs) == [BasicDivEq(t, rhs, FALSE) EXCEPT !.mod = BigInt(0)]

-----------------------------------------------------------------------------
(* The operations as steps of a caller: operands are constructed, one      *)
(* operation acts on the receiver x, and the caller keeps a and b.         *)

Start(av, bv, kv) ==
    /\ LIMB \in LimbWidths
    /\ pc = "start"
    /\ op = "none"
    /\ a = BigInt(av)
    /\ x = a
    /\ b = BigInt(bv)
    /\ k = kv
    /\ mod = BigInt(0)
    /\ modLimb = -1

\* the receiver becomes r; nothing else is written
Returns(name, r) ==
    /\ pc = "start"
    /\ pc' = "done"
    /\ op' = name
    /\ x' = r
    /\ UNCHANGED <<LIMB, a, b, k, mod, modLimb>>

\* x &= b, x |= b, x ^= b
OpAnd == Returns("and", AndEq(x, b))
OpOr == Returns("or", OrEq(x, b))
OpXor == Returns("xor", XorEq(x, b))

\* x = ~x: operator~ copies the receiver and inverts the copy
OpNot == Returns("not", ToBitInv(x))

\* x <<= k, x >>= k
OpShl == Returns("shl", ShlEq(x, k))
OpShr == Returns("shr", ShrEq(x, k))

\* the operation leaves r.this in the receiver, or never returns
Finished(name, r) ==
    /\ pc' = (IF r.st = "ok" THEN "done" ELSE r.st)
    /\ op' = name
    /\ x' = r.this
    /\ UNCHANGED <<LIMB, a, b, k>>

\* the long-division branch is taken with a divisor of two limbs (and
\* Algorithm A has left its normalization loop): it reads val_[n - 3] of the
\* divisor and val_[i + n - 3] of the receiver at i = 0
ReadsFront(t, rhs) ==
    /\ Compare(rhs, BigInt(0)) # 0
    /\ \E p \in {IF Sign(t) THEN ToOpposite(t) ELSE t} :
       \E d \in {IF Sign(rhs) THEN ToOpposite(rhs) ELSE rhs} :
          /\ d.len = 2
          /\ (LIMB > AlgBMaxLimb => NormShift(d.val[d.len - 1]) >= 0)
          /\ Compare(p, d) >= 0
          /\ ~(d.len <= PlainLen /\ p.len <= PlainLen)

\* what val_[-1] of the divisor and of the receiver can hold
Front(t, rhs) ==
    IF ReadsFront(t, rhs) THEN (0 .. Base - 1) \X (0 .. Base - 1)
    ELSE {<<0, 0>>}

\* x /= b
OpDivEq ==
    /\ pc = "start"
    /\ \E g \in Front(x, b) : \E r \in {DivEq(x, b, g)} :
          Finished("div", r) /\ UNCHANGED <<mod, modLimb>>

\* x %= b
OpModEq ==
    /\ pc = "start"
    /\ \E g \in Front(x, b) : \E r \in {ModEq(x, b, g)} :
          Finished("mod", r) /\ UNCHANGED <<mod, modLimb>>

\* x.BasicDivEq(r, &modLimb) with the single limb r of b
OpBasicDiv ==
    /\ pc = "start"
    /\ b.len = 1
    /\ \E r \in {BasicDivEq(x, b.val[0], TRUE)} :
          Finished("basic", r) /\ modLimb' = r.mod /\ UNCHANGED mod

\* x.PlainDivEq(b, &mod)
OpPlainDiv ==
    /\ pc = "start"
    /\ \E r \in {PlainDivEq(x, b, TRUE, mod)} :
          Finished("plain", r) /\ mod' = r.mod /\ UNCHANGED modLimb

\* x.DivEqAlgA(b, &mod)
OpDivAlgA ==
    /\ pc = "start"
    /\ \E g \in Front(x, b) : \E r \in {DivEqAlgA(x, b, TRUE, mod, g)} :
          Finished("algA", r) /\ mod' = r.mod /\ UNCHANGED modLimb

\* x.DivEqAlgB(b, &mod)
OpDivAlgB ==
    /\ pc = "start"
    /\ \E g \in Front(x, b) : \E r \in {DivEqAlgB(x, b, TRUE, mod, g)} :
          Finished("algB", r) /\ mod' = r.mod /\ UNCHANGED modLimb

\* x /= r with the single limb r of b
OpDivLimb ==
    /\ pc = "start"
    /\ b.len = 1
    /\ \E r \in {DivEqLimb(x, b.val[0])} :
          Finished("divlimb", r) /\ UNCHANGED <<mod, modLimb>>

\* x %= r with the single limb r of b, up to the store of len_ and val_[0]
\* (or the return of line 11)
OpModLimbStore ==
    /\ pc = "start"
    /\ b.len = 1
    /\ op' = "modlimb"
    /\ IF b.val[0] = 0
       THEN pc' = "done" /\ x' = x
       ELSE /\ pc' = "mid"
            /\ \E g \in 0 .. Base - 1 : x' = ModEqLimbStore(x, b.val[0], g)
    /\ UNCHANGED <<LIMB, a, b, k, mod, modLimb>>

\* x %= r, from line 28 to the return; sign (line 15) is the sign of the
\* receiver on entry
OpModLimbFinish ==
    /\ pc = "mid"
    /\ pc' = "done"
    /\ x' = ModEqLimbFinish(x, Sign(a))
    /\ UNCHANGED <<LIMB, op, a, b, k, mod, modLimb>>

\* the dividends of the division runs
Dividends ==
    {v \in -HugeMaxA .. HugeMaxA :
        \/ -SmallA <= v /\ v <= SmallA
        \/ (LongA <= v /\ v <= MaxA) \/ (-MaxA <= v /\ v <= -LongA)
        \/ v <= -HugeA \/ v >= HugeA}

\* the divisors of the division runs
Divisors == (-MaxB .. MaxB) \cup {-PadB, PadB, -WideB, WideB}

InitDiv == \E av \in Dividends, bv \in Divisors : Start(av, bv, 0)
NextDiv ==
    \/ OpDivEq \/ OpModEq \/ OpBasicDiv \/ OpPlainDiv \/ OpDivAlgA \/ OpDivAlgB
    \/ OpDivLimb \/ OpModLimbStore \/ OpModLimbFinish
DivSpec == InitDiv /\ [][NextDiv]_vars

InitBit ==
    \E av \in -MaxBitVal .. MaxBitVal, bv \in -MaxBitVal .. MaxBitVal :
        Start(av, bv, 0)
NextBit == OpAnd \/ OpOr \/ OpXor \/ OpNot
BitSpec == InitBit /\ [][NextBit]_vars

InitShift ==
    \E av \in -MaxShiftVal .. MaxShiftVal, kv \in 0 .. MaxShift :
        Start(av, 0, kv)
NextShift == OpShl \/ OpShr
ShiftSpec == InitShift /\ [][NextShift]_vars

-----------------------------------------------------------------------------
(* Reference arithmetic for the properties *)

Abs(v) == IF v < 0 THEN -v ELSE v

\* truncated quotient and the remainder that goes with it
TruncQuot(n, d) ==
    IF (n < 0) # (d < 0) THEN -(Abs(n) \div Abs(d)) ELSE Abs(n) \div Abs(d)
TruncRem(n, d) == n - d * TruncQuot(n, d)

\* the two's complement operation F on the numbers m and n, both extended to
\* the longer of the two lengths
Extended(F(_, _), m, n, len) ==
    LET w == Base ^ len
        u == F(m % w, n % w)
    IN  IF 2 * u >= w THEN u - w ELSE u

Done(name) == pc = "done" /\ op = name
Magnitude(n) == IF Sign(n) THEN ToOpposite(n) ELSE n

\* the engine that ran: DivEqAlgB hands over to DivEqAlgA for wide limbs
RanA == op = "algA" \/ LIMB > AlgBMaxLimb

\* DivEqAlgA / DivEqAlgB on t and rhs run their multi-limb loop
LongBranch(t, rhs) ==
    /\ Compare(rhs, BigInt(0)) # 0
    /\ \E p \in {Magnitude(t)} : \E d \in {Magnitude(rhs)} :
          /\ d.len >= 2
          /\ (RanA => NormShift(d.val[d.len - 1]) >= 0)
          /\ Compare(p, d) >= 0
          /\ ~(d.len <= PlainLen /\ p.len <= PlainLen)

\* mov of the divisor rhs (lines 139-143 / 204-208)
MovOf(rhs) == NormShift(Magnitude(rhs).val[Magnitude(rhs).len - 1])

\* the indices of val_ of the receiver that the round at position i reads
\* before its subtraction (lines 174-179, 306) and after it (lines 194-195,
\* 316-318), with a divisor of n limbs
ReadsBefore(i, n, mov) ==
    IF RanA THEN (IF mov # 0 THEN {i + n - 2, i + n - 3} ELSE {i + n - 2})
    ELSE {}
ReadsAfter(i, n) ==
    IF RanA THEN {i + n - 1, i + n - 2} ELSE {i + n - 1, i + n - 2, i + n - 3}

\* the indices of val_ of the divisor that the engines read (lines 162-169,
\* 304-305), with a divisor of n limbs
ReadsDivisor(n, mov) ==
    IF RanA /\ mov # 0 THEN {n - 1, n - 2, n - 3} ELSE {n - 1, n - 2}

\* the loop's outcomes, one for each content of the cells in front of the
\* buffers
LongLoops(t, rhs) ==
    {IF RanA
     THEN LongLoopA(Magnitude(t), Magnitude(rhs), MovOf(rhs), g)
     ELSE LongLoopB(Magnitude(t), Magnitude(rhs), g) : g \in Front(t, rhs)}

\* a long-division engine has returned from its multi-limb branch
LongDone == pc = "done" /\ op \in {"algA", "algB"} /\ LongBranch(a, b)
IsZero(n) == n.len = 1 /\ n.val[0] = 0
Divisions == {"div", "basic", "plain", "algA", "algB"}

-----------------------------------------------------------------------------
(* Properties *)

\* C1: division identity.  For canonical a and b # 0, with q = a / b and
\* r = a % b: a = q*b + r, |r| < |b|, and r is zero or has the sign of a.
C1_DivisionIdentity ==
    (Done("div") /\ Val(b) # 0) =>
        \A g \in Front(a, b) : \A rm \in {ModEq(a, b, g)} :
            rm.st = "ok" =>
                /\ Val(a) = Val(x) * Val(b) + Val(rm.this)
                /\ Abs(Val(rm.this)) < Abs(Val(b))
                /\ (Val(rm.this) = 0 \/ (Val(rm.this) < 0) = (Val(a) < 0))

\* C2: quotient by zero is the quiet no-op.  a /= 0, BasicDivEq(0),
\* PlainDivEq(0), DivEqAlgA(0) and DivEqAlgB(0) return with the receiver (len
\* and limbs) as it was, on every dispatch path, and no native division by
\* zero is performed.
C2_DivByZeroNoOp ==
    (pc # "start" /\ op \in Divisions /\ Val(b) = 0) => (pc = "done" /\ x = a)

\* a /= 0 has returned for a dividend longer than the accumulator
C2_Witness == Done("div") /\ Val(b) = 0 /\ a.len > PlainLen /\ Val(a) < 0

\* C3: remainder by zero returns the dividend: after a %= 0 the receiver
\* equals the original a.
C3_ModByZero == (Done("mod") /\ Val(b) = 0) => Val(x) = Val(a)

\* C4: four-way agreement.  For operands of at most 64/LIMB limbs and a
\* divisor of a single non-negative limb r >= 1, PlainDiv, BasicDiv, DivAlgA
\* and DivAlgB return the same quotient and write the same remainder.
C4_FourWayAgreement ==
    (Done("plain") /\ a.len <= PlainLen /\ b.len = 1 /\ Val(b) >= 1) =>
        \A rb \in {BasicDivEq(a, b.val[0], TRUE)} :
        \A ra \in {DivEqAlgA(a, b, TRUE, BigInt(0), <<0, 0>>)} :
        \A rB \in {DivEqAlgB(a, b, TRUE, BigInt(0), <<0, 0>>)} :
            /\ ra.st = "ok" /\ rB.st = "ok"
            /\ Val(rb.this) = Val(x) /\ Val(ra.this) = Val(x)
            /\ Val(rB.this) = Val(x)
            /\ rb.mod = Val(mod) /\ Val(ra.mod) = Val(mod)
            /\ Val(rB.mod) = Val(mod)

\* C5: truncated division on the plain path.  For b # 0 and both operands of
\* at most 64/LIMB limbs, PlainDivEq leaves the truncated quotient in the
\* receiver and writes the remainder with the sign of a to the remainder slot.
C5_PlainTruncated ==
    (Done("plain") /\ Val(b) # 0 /\ a.len <= PlainLen /\ b.len <= PlainLen) =>
        /\ Val(x) = TruncQuot(Val(a), Val(b))
        /\ Val(mod) = TruncRem(Val(a), Val(b))

\* C6: small dividend.  For b # 0 and |a| < |b|, on every division path the
\* quotient is zero (len 1, val[0] = 0) and the remainder is the signed a.
C6_SmallDividend ==
    (pc = "done" /\ Val(b) # 0 /\ Abs(Val(a)) < Abs(Val(b))) =>
        /\ op = "div" => IsZero(x)
        /\ op = "mod" => Val(x) = Val(a)
        /\ op \in {"plain", "algA", "algB"} => (IsZero(x) /\ Val(mod) = Val(a))

\* C7: left shift is multiplication by a power of two: (a << k) = a * 2^k
\* for negative, zero and positive a and every k >= 0.
C7_ShlIsMul == Done("shl") => Val(x) = Val(a) * 2 ^ k

\* C8: shift round trip: (a << k) >> k = a for every a >= 0 and k >= 0.
C8_ShiftRoundTrip == (Done("shl") /\ Val(a) >= 0) => Val(ShrEq(x, k)) = Val(a)

\* C9: a &= b, a |= b, a ^= b leave the two's complement AND, OR, XOR of the
\* operands, the shorter one sign-extended to the length of the longer.
C9_BitwiseValue ==
    /\ Done("and") => Val(x) = Extended(BitAnd, Val(a), Val(b), Max(a.len, b.len))
    /\ Done("or") => Val(x) = Extended(BitOr, Val(a), Val(b), Max(a.len, b.len))
    /\ Done("xor") => Val(x) = Extended(BitXor, Val(a), Val(b), Max(a.len, b.len))

\* C10: the bitwise operators are commutative: a & b = b & a, a | b = b | a
\* and a ^ b = b ^ a.
C10_BitwiseCommute ==
    /\ Done("and") => Val(x) = Val(AndEq(b, a))
    /\ Done("or") => Val(x) = Val(OrEq(b, a))
    /\ Done("xor") => Val(x) = Val(XorEq(b, a))

\* C11: complement cancels under XOR: ~a has the length of a with every
\* active limb inverted, and a ^ ~a is -1, a single limb with all bits set.
C11_ComplementCancels ==
    Done("not") =>
        /\ x.len = a.len
        /\ \A i \in 0 .. a.len - 1 : x.val[i] = Base - 1 - a.val[i]
        /\ \A r \in {XorEq(a, x)} : r.len = 1 /\ r.val[0] = Base - 1

\* ~a has been taken of a negative a of several limbs
C11_Witness == Done("not") /\ a.len >= 2 /\ Val(a) < 0

\* C12: canonical form is preserved: after ~, &=, |=, ^=, <<=, >>=, /=, %=
\* (BigInt and single-limb forms) on canonical operands the receiver, and the
\* remainder output where there is one, has len >= 1 and no top limb that
\* ShrinkLen would still strip.
C12_CanonicalPreserved ==
    pc = "done" =>
        /\ Canonical(x)
        /\ op \in {"plain", "algA", "algB"} => Canonical(mod)

\* cap_ is a power of two, 1 <= len_ <= cap_, the limbs at [len_, cap_) are 0
StorageOK(n) ==
    /\ n.cap >= 1 /\ NextPow2From(1, n.cap) = n.cap
    /\ 1 <= n.len /\ n.len <= n.cap
    /\ \A i \in n.len .. n.cap - 1 : n.val[i] = 0

\* C13: storage invariant: at every point of every operation cap is a power
\* of two, 1 <= len <= cap and the limbs at [len, cap) are zero; a %= r on an
\* integer with cap = 1 never sets len above cap.
C13_StorageInvariant == StorageOK(x)

\* C14: every division terminates: for canonical a and canonical b # 0
\* (also a b whose top limb is the zero sign-padding limb) DivEqAlgA,
\* DivEqAlgB, BasicDivEq, PlainDivEq, /= and %= run to completion.
C14_DivisionsTerminate == Val(b) # 0 => pc # "hang"

\* C15: single-limb division: for every a and every limb r >= 2,
\* BasicDivEq(r, mod) leaves the truncated quotient of a by r in the receiver
\* and writes |a| mod r to mod when a >= 0 or |a| mod r = 0, and
\* r - (|a| mod r) when a < 0 and |a| mod r # 0.
C15_BasicDivConvention ==
    (Done("basic") /\ b.val[0] >= 2) =>
        \A r \in {b.val[0]} : \A t \in {Abs(Val(a)) % r} :
            /\ Val(x) = TruncQuot(Val(a), r)
            /\ modLimb = IF Val(a) >= 0 \/ t = 0 THEN t ELSE r - t

\* C16: long-division loop invariant.  In the multi-limb branch of DivEqAlgA
\* and DivEqAlgB, after the round at position i the receiver is non-negative
\* and below |b| * 2^(i*LIMB); after the last round the receiver is
\* |a| mod |b| and result is floor(|a| / |b|).
C16_LoopInvariant ==
    LongDone =>
        \A l \in LongLoops(a, b) :
            /\ \A j \in 1 .. Len(l.rounds) :
                   /\ Val(l.rounds[j].after) >= 0
                   /\ Val(l.rounds[j].after) < Abs(Val(b)) * Base ^ l.rounds[j].i
            /\ Val(l.this) = Abs(Val(a)) % Abs(Val(b))
            /\ Val(l.result) = Abs(Val(a)) \div Abs(Val(b))

\* the quotient limb of the round r: floor(receiver / (|b| * 2^(i*LIMB)))
TrueQuot(r) == Val(r.before) \div (Abs(Val(b)) * Base ^ r.i)

\* the round r is entered with 0 <= receiver < |b| * 2^((i+1)*LIMB)
EntersBounded(r) ==
    /\ Val(r.before) >= 0
    /\ Val(r.before) < Abs(Val(b)) * Base ^ (r.i + 1)

\* C17: Algorithm B trial-quotient bound.  In every round of DivEqAlgB's
\* multi-limb loop entered with 0 <= receiver < |b| * 2^((i+1)*LIMB), the
\* trial quotient q is the true quotient limb or one more.
C17_TrialBound ==
    (LongDone /\ ~RanA) =>
        \A l \in LongLoops(a, b) : \A j \in 1 .. Len(l.rounds) :
            EntersBounded(l.rounds[j]) =>
                /\ TrueQuot(l.rounds[j]) <= l.rounds[j].q
                /\ l.rounds[j].q <= TrueQuot(l.rounds[j]) + 1

\* the guard of the refinement of Algorithm A, with q and r = u1 - q * v1 as
\* they are when the subtraction of the round starts, in unbounded arithmetic
GuardStillTrue(r) ==
    r.q * r.win.v2 > (r.win.u1 - r.q * r.win.v1) * Base + r.win.u2

\* C18: Algorithm A refinement postcondition.  In every round of
\* DivEqAlgA's multi-limb loop, when the subtraction of q * v starts the
\* guard of the refinement is false: q * v2 <= r * 2^LIMB + u2.
C18_RefinementDone ==
    (LongDone /\ RanA) =>
        \A l \in LongLoops(a, b) : \A j \in 1 .. Len(l.rounds) :
            ~GuardStillTrue(l.rounds[j])

InRange(n, idx) == \A j \in idx : 0 <= j /\ j < n.cap

\* C19: no out-of-range limb access in the long-division engines.  For
\* every dividend and every divisor of n >= 2 limbs, every index used to
\* read val_ of the receiver or of the divisor inside the multi-limb branch
\* of DivEqAlgA and DivEqAlgB is >= 0 and below the buffer's cap.
C19_ReadsInRange ==
    LongDone =>
        \A n \in {Magnitude(b).len} : \A mov \in {MovOf(b)} :
            /\ InRange(Magnitude(b), ReadsDivisor(n, mov))
            /\ \A l \in LongLoops(a, b) : \A j \in 1 .. Len(l.rounds) :
                   /\ InRange(l.rounds[j].before,
                              ReadsBefore(l.rounds[j].i, n, mov))
                   /\ InRange(l.rounds[j].after, ReadsAfter(l.rounds[j].i, n))

\* C20: right shift of a non-negative value is floor division by a power
\* of two.  For canonical a >= 0 and k >= 0, a >> k = floor(a / 2^k) and the
\* result is non-negative; when k / LIMB >= a.len the result is zero with
\* len = 1.
C20_ShrIsFloorDiv ==
    (Done("shr") /\ Val(a) >= 0) =>
        /\ Val(x) = Val(a) \div 2 ^ k
        /\ Val(x) >= 0
        /\ (k \div LIMB >= a.len => IsZero(x))

=============================================================================
